---- MODULE Spec2Model ----
(***************************************************************************)
(* server-stats (src/rust/src/main.rs): one synchronous pass that samples  *)
(* the machine through sysinfo, runs the external probes netstat, who and  *)
(* lastb, resolves process owners through /proc/PID/status and prints the  *)
(* report section by section.                                              *)
(*                                                                         *)
(* The model keeps the live machine (env), the sampler (sys), the log of   *)
(* sampler calls of the current run (log), the sections printed so far     *)
(* (out), the body of the previous run's report (prev) and the position    *)
(* of main (pc).  A float is kept as the exact quotient the code divides,  *)
(* with NaN and infinity as values of their own; text is kept as the       *)
(* sequence of its characters wherever the code parses it.                 *)
(***************************************************************************)
EXTENDS Integers, Sequences, FiniteSets, TLC

VARIABLES pc, run, env, sys, log, out, prev

vars == <<pc, run, env, sys, log, out, prev>>

(***************************************************************************)
(* Bounds of the model.                                                    *)
(***************************************************************************)
\* processes of the machine in a full run
MaxPids == 2
\* processes in the list handed to the two rankers (more than take(5))
MaxRankProcs == 6
\* cpu fraction and resident memory of a process range over 0..MaxMetric
MaxMetric == 1
\* lines of a /proc/PID/status file
MaxStatusLines == 2
\* changes of the live machine during the runs
MaxTicks == 1
\* uptime in seconds ranges over 0..MaxUptime
MaxUptime == 90061

(***************************************************************************)
(* Program constants.                                                      *)
(***************************************************************************)
SleepMs == 200
TopN == 5
WhoShown == 10
LastbShown == 5
SecondsPerDay == 86400
SecondsPerHour == 3600
SecondsPerMinute == 60

Min(a, b) == IF a < b THEN a ELSE b

\* Option<T>
None == [some |-> FALSE]
Some(v) == [some |-> TRUE, val |-> v]

\* the first n elements of s: Iterator::take(n)
Take(s, n) == SubSeq(s, 1, Min(n, Len(s)))

\* all orders in which the elements of a finite set can be enumerated
RECURSIVE Enumerations(_)
Enumerations(S) ==
    IF S = {} THEN {<<>>}
    ELSE UNION {{<<x>> \o e : e \in Enumerations(S \ {x})} : x \in S}

(***************************************************************************)
(* f64 arithmetic of the percentages: a as f64 / b as f64 * 100.0.         *)
(***************************************************************************)
NaN == [kind |-> "NaN"]
Inf == [kind |-> "inf"]
Num(n, d) == [kind |-> "num", num |-> n, den |-> d]
Zero == Num(0, 1)

\* (a as f64 / b as f64) * 100.0, with IEEE 754 division by zero
Percent(a, b) ==
    IF b = 0 THEN (IF a = 0 THEN NaN ELSE Inf)
    ELSE Num(a * 100, b)

IsZero(x) == x.kind = "num" /\ x.num = 0

(***************************************************************************)
(* Text: a line is the sequence of its characters.                         *)
(***************************************************************************)
Digits == {"0", "1", "2", "3", "4", "5", "6", "7", "8", "9"}
Whitespace == {" ", "\t"}

DigitVal(c) ==
    CASE c = "0" -> 0 [] c = "1" -> 1 [] c = "2" -> 2 [] c = "3" -> 3
      [] c = "4" -> 4 [] c = "5" -> 5 [] c = "6" -> 6 [] c = "7" -> 7
      [] c = "8" -> 8 [] c = "9" -> 9

\* str::starts_with
StartsWith(line, prefix) ==
    /\ Len(line) >= Len(prefix)
    /\ SubSeq(line, 1, Len(prefix)) = prefix

\* str::split_whitespace: the maximal runs of non-whitespace characters
RECURSIVE SplitWs(_, _)
SplitWs(line, cur) ==
    IF line = <<>> THEN (IF cur = <<>> THEN <<>> ELSE <<cur>>)
    ELSE IF Head(line) \in Whitespace
         THEN (IF cur = <<>> THEN <<>> ELSE <<cur>>) \o SplitWs(Tail(line), <<>>)
         ELSE SplitWs(Tail(line), Append(cur, Head(line)))

split_whitespace(line) == SplitWs(line, <<>>)

\* Iterator::nth(k), k counted from 0
Nth(s, k) == IF Len(s) > k THEN Some(s[k + 1]) ELSE None

\* a number is kept as its decimal numeral without leading zeros, since a
\* u32 does not fit the 32-bit integers of TLC
RECURSIVE StripZeros(_)
StripZeros(s) ==
    IF Len(s) > 1 /\ Head(s) = "0" THEN StripZeros(Tail(s)) ELSE s

\* u32::MAX
U32MaxNumeral == <<"4", "2", "9", "4", "9", "6", "7", "2", "9", "5">>

\* a <= b for numerals of the same length
RECURSIVE NumeralLeq(_, _)
NumeralLeq(a, b) ==
    IF a = <<>> THEN TRUE
    ELSE IF DigitVal(Head(a)) < DigitVal(Head(b)) THEN TRUE
    ELSE IF DigitVal(Head(a)) > DigitVal(Head(b)) THEN FALSE
    ELSE NumeralLeq(Tail(a), Tail(b))

FitsU32(numeral) ==
    \/ Len(numeral) < Len(U32MaxNumeral)
    \/ Len(numeral) = Len(U32MaxNumeral) /\ NumeralLeq(numeral, U32MaxNumeral)

AllDigits(s) == \A i \in 1 .. Len(s) : s[i] \in Digits

\* str::parse::<u32>: an optional "+", then at least one digit, nothing
\* else, and a value of at most u32::MAX
parse_u32(s) ==
    LET body == IF s # <<>> /\ Head(s) = "+" THEN Tail(s) ELSE s
    IN  IF body = <<>> \/ ~AllDigits(body) THEN None
        ELSE IF FitsU32(StripZeros(body)) THEN Some(StripZeros(body)) ELSE None

UidPrefix == <<"U", "i", "d", ":">>

(***************************************************************************)
(* The identity directory: users::get_user_by_uid.                         *)
(***************************************************************************)
Passwd == (<<"0">> :> "root") @@ (<<"1", "0", "0", "0">> :> "alice")

get_user_by_uid(uid) ==
    IF uid \in DOMAIN Passwd THEN Some(Passwd[uid]) ELSE None

\* the first line of the file that starts with "Uid:", if any
RECURSIVE FirstUidLine(_)
FirstUidLine(lines) ==
    IF lines = <<>> THEN None
    ELSE IF StartsWith(Head(lines), UidPrefix) THEN Some(Head(lines))
    ELSE FirstUidLine(Tail(lines))

\* what the one Uid line the loop looks at resolves to
UidLineUser(line) ==
    LET uid_str == Nth(split_whitespace(line), 1)
    IN  IF ~uid_str.some THEN None
        ELSE LET uid == parse_u32(uid_str.val)
             IN  IF ~uid.some THEN None ELSE get_user_by_uid(uid.val)

\* faulty variant: without the break, the loop goes on to later Uid lines
RECURSIVE FirstResolvingUidLine(_)
FirstResolvingUidLine(lines) ==
    IF lines = <<>> THEN None
    ELSE IF StartsWith(Head(lines), UidPrefix) /\ UidLineUser(Head(lines)).some
         THEN UidLineUser(Head(lines))
         ELSE FirstResolvingUidLine(Tail(lines))

get_process_user_no_break(status) ==
    IF ~status.ok THEN "unknown"
    ELSE LET user == FirstResolvingUidLine(status.lines)
         IN  IF user.some THEN user.val ELSE "unknown"

\* status: the outcome of fs::read_to_string("/proc/PID/status"):
\* [ok |-> FALSE] or [ok |-> TRUE, lines |-> ...]
get_process_user(status) ==
    IF ~status.ok THEN "unknown"
    ELSE LET l == FirstUidLine(status.lines)
         IN  IF ~l.some THEN "unknown"
             ELSE LET user == UidLineUser(l.val)
                  IN  IF user.some THEN user.val ELSE "unknown"

(***************************************************************************)
(* The rankers: slice::sort_by is a stable sort; the comparator puts a     *)
(* before b exactly when it answers Less.                                  *)
(***************************************************************************)
\* f32::partial_cmp and u64::cmp on the model's numbers
Ordering(x, y) == IF x < y THEN "Less" ELSE IF x = y THEN "Equal" ELSE "Greater"

\* |a, b| b.cpu_usage().partial_cmp(&a.cpu_usage()).unwrap()
CmpCpu(a, b) == Ordering(b.cpu, a.cpu)

\* |a, b| b.memory().cmp(&a.memory())
CmpMem(a, b) == Ordering(b.mem, a.mem)

Compare(a, b, key) == IF key = "cpu" THEN CmpCpu(a, b) ELSE CmpMem(a, b)

\* faulty variant: an unstable sort, x goes before its equals
RECURSIVE InsertUnstable(_, _, _)
InsertUnstable(sorted, x, key) ==
    IF sorted = <<>> THEN <<x>>
    ELSE IF Compare(x, Head(sorted), key) # "Greater" THEN <<x>> \o sorted
    ELSE <<Head(sorted)>> \o InsertUnstable(Tail(sorted), x, key)

\* x goes before the first element it is Less than, behind its equals
RECURSIVE InsertStable(_, _, _)
InsertStable(sorted, x, key) ==
    IF sorted = <<>> THEN <<x>>
    ELSE IF Compare(x, Head(sorted), key) = "Less" THEN <<x>> \o sorted
    ELSE <<Head(sorted)>> \o InsertStable(Tail(sorted), x, key)

RECURSIVE SortInto(_, _, _)
SortInto(sorted, rest, key) ==
    IF rest = <<>> THEN sorted
    ELSE SortInto(InsertStable(sorted, Head(rest), key), Tail(rest), key)

sort_by(s, key) == SortInto(<<>>, s, key)

(***************************************************************************)
(* The live machine and the probes.                                        *)
(***************************************************************************)
\* Command::output() of a probe: Err (the binary cannot be spawned) or
\* Ok with the exit status and the standard output, line by line
SpawnErr == [ok |-> FALSE]
Output(code, stdout) == [ok |-> TRUE, code |-> code, stdout |-> stdout]

BlankLines == {"", "   "}
BtmpLines == {"btmp begins Mon Nov  2 09:14:07 2026"}
ListenLines == {"tcp 0 0 0.0.0.0:22 0.0.0.0:* LISTEN", "tcp6 0 0 :::80 :::* LISTEN"}

\* line.trim().is_empty()
IsBlank(line) == line \in BlankLines
\* line.starts_with("btmp begins")
IsBtmpHeader(line) == line \in BtmpLines
\* line.contains("LISTEN")
ContainsListen(line) == line \in ListenLines

NetstatOutcomes ==
    { SpawnErr,
      Output(0, <<"Proto Recv-Q Send-Q Local Address Foreign Address State",
                  "tcp 0 0 0.0.0.0:22 0.0.0.0:* LISTEN",
                  "udp 0 0 0.0.0.0:68 0.0.0.0:*">>) }

WhoOutcomes ==
    { SpawnErr,
      Output(0, <<"alice pts/0 2026-11-02 09:14">>) }

\* lastb: missing; btmp unreadable (exit 1, nothing on stdout); no failed
\* login on record; one failed login on record
LastbMissing == SpawnErr
LastbDenied == Output(1, <<>>)
LastbNone == Output(0, <<"", "btmp begins Mon Nov  2 09:14:07 2026">>)
LastbOne == Output(0, <<"root ssh:notty 10.0.0.7 Mon Nov  2 09:20", "",
                        "btmp begins Mon Nov  2 09:14:07 2026">>)
LastbOutcomes == {LastbMissing, LastbDenied, LastbNone, LastbOne}

\* fs::read_to_string("/proc/PID/status")
Unreadable == [ok |-> FALSE]
File(lines) == [ok |-> TRUE, lines |-> lines]

NameLine == <<"N", "a", "m", "e", ":", "\t", "s", "h">>
UidRoot == <<"U", "i", "d", ":", "\t", "0", "\t", "0">>
UidAlice == <<"U", "i", "d", ":", "\t", "1", "0", "0", "0", " ", "1", "0", "0", "0">>
UidPlus == <<"U", "i", "d", ":", " ", "+", "0", "0">>
UidNoEntry == <<"U", "i", "d", ":", "\t", "4", "2">>
UidBare == <<"U", "i", "d", ":">>
UidGlued == <<"U", "i", "d", ":", "0">>
UidWord == <<"U", "i", "d", ":", "\t", "x", "0">>
UidNegative == <<"U", "i", "d", ":", "\t", "-", "1">>
UidTooBig == <<"U", "i", "d", ":", "\t", "4", "2", "9", "4", "9", "6", "7", "2", "9", "6">>
UidIndented == <<" ", "U", "i", "d", ":", "\t", "0">>

StatusLines ==
    { NameLine, UidRoot, UidAlice, UidPlus, UidNoEntry, UidBare, UidGlued,
      UidWord, UidNegative, UidTooBig, UidIndented }

\* every status file of at most n lines
RECURSIVE LinesUpTo(_)
LinesUpTo(n) ==
    IF n = 0 THEN {<<>>}
    ELSE LET shorter == LinesUpTo(n - 1)
         IN  shorter \cup {Append(f, l) : f \in {g \in shorter : Len(g) = n - 1},
                                          l \in StatusLines}

StatusFiles == {Unreadable} \cup {File(f) : f \in LinesUpTo(MaxStatusLines)}

GoodStatus == File(<<NameLine, UidAlice>>)

Metrics == 0 .. MaxMetric

BaseEnv ==
    [ hostnameVar |-> TRUE, hostnameCmd |-> TRUE,
      netstat |-> Output(0, <<"tcp 0 0 0.0.0.0:22 0.0.0.0:* LISTEN">>),
      who |-> Output(0, <<"alice pts/0 2026-11-02 09:14">>),
      lastb |-> LastbOne,
      procs |-> <<>>,
      totalMem |-> 2, usedMem |-> 1, availMem |-> 1,
      totalSwap |-> 0, usedSwap |-> 0,
      disks |-> <<[total |-> 2, avail |-> 1]>>,
      nets |-> {"lo"},
      uptime |-> 90061,
      ticks |-> 0 ]

\* the status file of a process as it is when the report asks for it
StatusOf(e, pid) ==
    IF pid \in DOMAIN e.procs THEN e.procs[pid].status ELSE Unreadable

(***************************************************************************)
(* The sampler: sysinfo's System.  The process map and the network map     *)
(* are HashMaps; the order in which one enumerates its entries is fixed    *)
(* when the System is built and differs from one execution to the next.    *)
(***************************************************************************)
NewSys(order, netOrder) ==
    [ order |-> order, netOrder |-> netOrder,
      procs |-> <<>>, nets |-> <<>>,
      totalMem |-> 0, usedMem |-> 0, availMem |-> 0,
      totalSwap |-> 0, usedSwap |-> 0,
      disks |-> <<>>, uptime |-> 0,
      sinceCpu |-> -1, window |-> -1 ]

NoSys == NewSys(<<>>, <<>>)

\* System::refresh_cpu: the usage is the delta over the time since the
\* refresh before (window), -1 when there was none
refresh_cpu(s) == [s EXCEPT !.window = s.sinceCpu, !.sinceCpu = 0]

\* faulty variant: the two samples are taken back to back
sleep_skipped(s) == s

\* std::thread::sleep(Duration::from_millis(200))
sleep(s) == [s EXCEPT !.sinceCpu = IF @ < 0 THEN @ ELSE @ + SleepMs]

\* System::refresh_all: every counter is read again from the machine
refresh_all(s, e) ==
    refresh_cpu(
      [s EXCEPT
         !.procs = [i \in 1 .. Len(s.order) |->
                      [pid |-> s.order[i],
                       cpu |-> e.procs[s.order[i]].cpu,
                       mem |-> e.procs[s.order[i]].mem]],
         !.nets = s.netOrder,
         !.totalMem = e.totalMem, !.usedMem = e.usedMem, !.availMem = e.availMem,
         !.totalSwap = e.totalSwap, !.usedSwap = e.usedSwap,
         !.disks = e.disks, !.uptime = e.uptime])

(***************************************************************************)
(* The sections of the report.                                             *)
(***************************************************************************)
HeaderSec(e, r) ==
    [sec |-> "header", timestamp |-> r,
     hostname |-> IF e.hostnameVar THEN Some("HOSTNAME")
                  ELSE IF e.hostnameCmd THEN Some("hostname") ELSE None]

CpuSec(s) == [sec |-> "cpu", window |-> s.window]

MemorySec(s) ==
    [sec |-> "memory",
     used_percent |-> Percent(s.usedMem, s.totalMem),
     available_percent |-> Percent(s.availMem, s.totalMem),
     swap |-> IF s.totalSwap > 0 THEN Some(Percent(s.usedSwap, s.totalSwap))
              ELSE None]

DiskRow(disk) ==
    [total_space |-> disk.total,
     used_space |-> disk.total - disk.avail,
     used_percent |-> IF disk.total > 0
                      THEN Percent(disk.total - disk.avail, disk.total)
                      ELSE Zero]

DiskSec(s) ==
    [sec |-> "disk", rows |-> [i \in 1 .. Len(s.disks) |-> DiskRow(s.disks[i])]]

\* one row of the CPU table; mem is the entry's memory, which is not printed
CpuRow(process, e) ==
    [pid |-> process.pid, user |-> get_process_user(StatusOf(e, process.pid)),
     cpu |-> process.cpu, mem |-> process.mem]

\* one row of the memory table; cpu is the entry's cpu, which is not printed
MemRow(process, total_memory, e) ==
    [pid |-> process.pid, user |-> get_process_user(StatusOf(e, process.pid)),
     memory_percent |-> Percent(process.mem, total_memory),
     cpu |-> process.cpu, mem |-> process.mem]

TopCpu(processes) == Take(sort_by(processes, "cpu"), TopN)

TopMem(processes) == Take(sort_by(processes, "mem"), TopN)

TopCpuSec(s, e) ==
    LET top == TopCpu(s.procs)
    IN  [sec |-> "top_cpu", rows |-> [i \in 1 .. Len(top) |-> CpuRow(top[i], e)]]

\* faulty variant: the memory table reads the machine again
TopMemSecResampled(s, e) ==
    LET fresh == refresh_all(s, e)
        top == TopMem(fresh.procs)
    IN  [sec |-> "top_mem",
         rows |-> [i \in 1 .. Len(top) |-> MemRow(top[i], fresh.totalMem, e)]]

TopMemSec(s, e) ==
    LET top == TopMem(s.procs)
    IN  [sec |-> "top_mem",
         rows |-> [i \in 1 .. Len(top) |-> MemRow(top[i], s.totalMem, e)]]

UptimeDays(uptime_seconds) == uptime_seconds \div SecondsPerDay
UptimeHours(uptime_seconds) == (uptime_seconds % SecondsPerDay) \div SecondsPerHour
\* faulty variant: the minutes are not reduced modulo the hour
UptimeMinutesNoModulo(uptime_seconds) == uptime_seconds \div SecondsPerMinute

UptimeMinutes(uptime_seconds) == (uptime_seconds % SecondsPerHour) \div SecondsPerMinute

OsSec(s) ==
    [sec |-> "os", uptime_seconds |-> s.uptime,
     days |-> UptimeDays(s.uptime),
     hours |-> UptimeHours(s.uptime),
     minutes |-> UptimeMinutes(s.uptime)]

RECURSIVE CountListen(_)
CountListen(lines) ==
    IF lines = <<>> THEN 0
    ELSE (IF ContainsListen(Head(lines)) THEN 1 ELSE 0) + CountListen(Tail(lines))

\* faulty variant: the port count is printed ahead of the interface lines
NetworkSecsPortsFirst(s, e) ==
    (IF e.netstat.ok
     THEN <<[sec |-> "ports", listening |-> CountListen(e.netstat.stdout)]>>
     ELSE <<>>)
    \o <<[sec |-> "network", interfaces |-> s.nets]>>

\* the interface lines, then the port count if netstat could be run
NetworkSecs(s, e) ==
    <<[sec |-> "network", interfaces |-> s.nets]>>
    \o (IF e.netstat.ok
        THEN <<[sec |-> "ports", listening |-> CountListen(e.netstat.stdout)]>>
        ELSE <<>>)

UnableUsers == "Unable to retrieve user information"
UnableFailed == "Unable to retrieve failed login information (may require sudo)"
NoFailedLogins == "No failed login attempts found"

\* faulty variant: a who that cannot be spawned leaves the section empty
UsersSecSilent(e) ==
    IF e.who.ok
    THEN [sec |-> "users", lines |-> Take(e.who.stdout, WhoShown),
          total |-> Some(Len(e.who.stdout)), message |-> ""]
    ELSE [sec |-> "users", lines |-> <<>>, total |-> None, message |-> ""]

UsersSec(e) ==
    IF e.who.ok
    THEN [sec |-> "users", lines |-> Take(e.who.stdout, WhoShown),
          total |-> Some(Len(e.who.stdout)), message |-> ""]
    ELSE [sec |-> "users", lines |-> <<>>, total |-> None,
          message |-> UnableUsers]

\* lastb_output.trim().is_empty()
AllBlank(lines) == \A i \in 1 .. Len(lines) : IsBlank(lines[i])

RECURSIVE FailedLines(_)
FailedLines(lines) ==
    IF lines = <<>> THEN <<>>
    ELSE (IF ~IsBlank(Head(lines)) /\ ~IsBtmpHeader(Head(lines))
          THEN <<Head(lines)>> ELSE <<>>) \o FailedLines(Tail(lines))

FailedSec(e) ==
    IF e.lastb.ok
    THEN IF ~AllBlank(e.lastb.stdout)
         THEN [sec |-> "failed_logins",
               lines |-> FailedLines(Take(e.lastb.stdout, LastbShown)),
               message |-> ""]
         ELSE [sec |-> "failed_logins", lines |-> <<>>,
               message |-> NoFailedLogins]
    ELSE [sec |-> "failed_logins", lines |-> <<>>,
          message |-> UnableFailed]

BootSec == [sec |-> "boot_time"]

FooterSec == [sec |-> "footer"]

\* the report without the "Generated on" time of its header
Body(report) ==
    [i \in 1 .. Len(report) |->
       IF report[i].sec = "header"
       THEN [sec |-> "header", hostname |-> report[i].hostname]
       ELSE report[i]]

(***************************************************************************)
(* main, step by step.                                                     *)
(***************************************************************************)
\* main.rs 8-19: the banner, the time and the host name
main_header ==
    /\ pc = "main"
    /\ out' = <<HeaderSec(env, run)>>
    /\ pc' = "new_all"
    /\ UNCHANGED <<run, env, sys, log, prev>>

\* main.rs 21: System::new_all() builds the maps and reads every counter
System_new_all ==
    /\ pc = "new_all"
    /\ \E order \in Enumerations(DOMAIN env.procs),
          netOrder \in Enumerations(env.nets) :
         sys' = refresh_all(NewSys(order, netOrder), env)
    /\ log' = Append(log, "new_all")
    /\ pc' = "refresh_all"
    /\ UNCHANGED <<run, env, out, prev>>

\* main.rs 22: sys.refresh_all()
main_refresh_all ==
    /\ pc = "refresh_all"
    /\ sys' = refresh_all(sys, env)
    /\ log' = Append(log, "refresh_all")
    /\ pc' = "cpu_refresh"
    /\ UNCHANGED <<run, env, out, prev>>

\* print_cpu_usage, 54-57: the first refresh_cpu
print_cpu_usage_refresh ==
    /\ pc = "cpu_refresh"
    /\ sys' = refresh_cpu(sys)
    /\ log' = Append(log, "refresh_cpu")
    /\ pc' = "cpu_sleep"
    /\ UNCHANGED <<run, env, out, prev>>

\* print_cpu_usage, 58: the 200 ms between the two samples
print_cpu_usage_sleep ==
    /\ pc = "cpu_sleep"
    /\ sys' = sleep(sys)
    /\ log' = Append(log, "sleep")
    /\ pc' = "cpu_read"
    /\ UNCHANGED <<run, env, out, prev>>

\* print_cpu_usage, 59-65: the second refresh_cpu, then the figures
print_cpu_usage_read ==
    /\ pc = "cpu_read"
    /\ sys' = refresh_cpu(sys)
    /\ log' = log \o <<"refresh_cpu", "read_cpu">>
    /\ out' = Append(out, CpuSec(sys'))
    /\ pc' = "memory"
    /\ UNCHANGED <<run, env, prev>>

print_memory_usage ==
    /\ pc = "memory"
    /\ out' = Append(out, MemorySec(sys))
    /\ pc' = "disk"
    /\ UNCHANGED <<run, env, sys, log, prev>>

print_disk_usage ==
    /\ pc = "disk"
    /\ out' = Append(out, DiskSec(sys))
    /\ pc' = "top_cpu"
    /\ UNCHANGED <<run, env, sys, log, prev>>

print_top_processes_cpu ==
    /\ pc = "top_cpu"
    /\ out' = Append(out, TopCpuSec(sys, env))
    /\ log' = Append(log, "top_cpu")
    /\ pc' = "top_mem"
    /\ UNCHANGED <<run, env, sys, prev>>

print_top_processes_memory ==
    /\ pc = "top_mem"
    /\ out' = Append(out, TopMemSec(sys, env))
    /\ log' = Append(log, "top_mem")
    /\ pc' = "additional_info"
    /\ UNCHANGED <<run, env, sys, prev>>

\* print_additional_info, 162-182: OS, uptime, load
print_additional_info ==
    /\ pc = "additional_info"
    /\ out' = Append(out, OsSec(sys))
    /\ pc' = "network_info"
    /\ UNCHANGED <<run, env, sys, log, prev>>

print_network_info ==
    /\ pc = "network_info"
    /\ out' = out \o NetworkSecs(sys, env)
    /\ pc' = "logged_users"
    /\ UNCHANGED <<run, env, sys, log, prev>>

print_logged_users ==
    /\ pc = "logged_users"
    /\ out' = out \o <<UsersSec(env), FailedSec(env)>>
    /\ pc' = "boot_time"
    /\ UNCHANGED <<run, env, sys, log, prev>>

\* print_additional_info, 190-194: the line after print_logged_users returns
print_boot_time ==
    /\ pc = "boot_time"
    /\ out' = Append(out, BootSec)
    /\ pc' = "footer"
    /\ UNCHANGED <<run, env, sys, log, prev>>

\* main.rs 42-46: the footer; main returns and the process exits with 0
main_footer ==
    /\ pc = "footer"
    /\ out' = Append(out, FooterSec)
    /\ pc' = "exit_0"
    /\ UNCHANGED <<run, env, sys, log, prev>>

\* the tool is run a second time: a new process, a new System
Rerun ==
    /\ pc = "exit_0"
    /\ run = "first"
    /\ run' = "second"
    /\ prev' = Some(Body(out))
    /\ out' = <<>>
    /\ sys' = NoSys
    /\ log' = <<>>
    /\ pc' = "main"
    /\ UNCHANGED env

\* the machine goes on running: every process's counters move
MachineRuns ==
    /\ env.ticks < MaxTicks
    /\ env' = [env EXCEPT
                 !.ticks = @ + 1,
                 !.procs = [p \in DOMAIN @ |->
                              [@[p] EXCEPT !.cpu = (@ + 1) % (MaxMetric + 1),
                                           !.mem = (@ + 1) % (MaxMetric + 1)]]]
    /\ UNCHANGED <<pc, run, sys, log, out, prev>>

RunStep ==
    \/ main_header
    \/ System_new_all
    \/ main_refresh_all
    \/ print_cpu_usage_refresh
    \/ print_cpu_usage_sleep
    \/ print_cpu_usage_read
    \/ print_memory_usage
    \/ print_disk_usage
    \/ print_top_processes_cpu
    \/ print_top_processes_memory
    \/ print_additional_info
    \/ print_network_info
    \/ print_logged_users
    \/ print_boot_time
    \/ main_footer

Next ==
    \/ RunStep
    \/ Rerun
    \/ MachineRuns

(***************************************************************************)
(* The machines the runs are checked on.                                   *)
(***************************************************************************)
Proc(cpu, mem, status) == [cpu |-> cpu, mem |-> mem, status |-> status]

\* $HOSTNAME set; unset and hostname runs; unset and hostname missing
HostnameSources == {<<TRUE, TRUE>>, <<FALSE, TRUE>>, <<FALSE, FALSE>>}

\* n processes with metrics of their own, each status file there or not
ProbeProcs ==
    UNION {[1 .. n -> {Unreadable, GoodStatus}] : n \in 0 .. MaxPids}

ProbeEnvs ==
    { [BaseEnv EXCEPT
         !.hostnameVar = h[1], !.hostnameCmd = h[2],
         !.netstat = n, !.who = w, !.lastb = l,
         !.nets = {"eth0", "lo"},
         !.procs = [p \in DOMAIN st |->
                      Proc(p % (MaxMetric + 1), p % (MaxMetric + 1), st[p])]] :
        h \in HostnameSources, n \in NetstatOutcomes, w \in WhoOutcomes,
        l \in LastbOutcomes, st \in ProbeProcs }

\* total, used and available memory in bytes
MemorySizes == {<<0, 0, 0>>, <<2, 1, 1>>}

ProcMetrics == UNION {[1 .. n -> Metrics] : n \in 0 .. MaxPids}

SnapshotEnvs ==
    { [BaseEnv EXCEPT
         !.totalMem = m[1], !.usedMem = m[2], !.availMem = m[3],
         !.disks = <<[total |-> 0, avail |-> 0], [total |-> 2, avail |-> 1]>>,
         !.procs = [p \in DOMAIN c |-> Proc(c[p], c[p], GoodStatus)]] :
        m \in MemorySizes, c \in ProcMetrics }

Init ==
    /\ pc = "main"
    /\ run = "first"
    /\ env \in ProbeEnvs \cup SnapshotEnvs
    /\ sys = NoSys
    /\ log = <<>>
    /\ out = <<>>
    /\ prev = None

Spec == Init /\ [][Next]_vars

(***************************************************************************)
(* The state main is in when it reaches the process tables, for a machine  *)
(* e whose maps enumerate in the given orders.                             *)
(***************************************************************************)
Sampled(e, order, netOrder) ==
    refresh_cpu(sleep(refresh_cpu(
        refresh_all(refresh_all(NewSys(order, netOrder), e), e))))

LogBeforeTables ==
    <<"new_all", "refresh_all", "refresh_cpu", "sleep", "refresh_cpu", "read_cpu">>

OutBeforeTables(e, s) ==
    <<HeaderSec(e, "first"), CpuSec(s), MemorySec(s), DiskSec(s)>>

Identity(n) == [i \in 1 .. n |-> i]

AtTables(e) ==
    /\ pc = "top_cpu"
    /\ run = "first"
    /\ env = e
    /\ sys = Sampled(e, Identity(Len(e.procs)), <<"lo">>)
    /\ log = LogBeforeTables
    /\ out = OutBeforeTables(e, sys)
    /\ prev = None

NextTables ==
    \/ print_top_processes_cpu
    \/ print_top_processes_memory

\* the rankers on every process list of up to MaxRankProcs entries
RankLists == UNION {[1 .. n -> Metrics] : n \in 0 .. MaxRankProcs}

InitRank ==
    \E c \in RankLists :
      AtTables([BaseEnv EXCEPT
                  !.procs = [p \in DOMAIN c |->
                               Proc(c[p], MaxMetric - c[p], GoodStatus)]])

SpecRank == InitRank /\ [][NextTables]_vars

\* owner resolution on every status file of up to MaxStatusLines lines, for
\* the first of one or two processes
InitOwner ==
    \E first \in StatusFiles, rest \in {<<>>, <<Unreadable>>, <<GoodStatus>>} :
      AtTables([BaseEnv EXCEPT
                  !.procs = [p \in 1 .. 1 + Len(rest) |->
                               Proc(0, 0, IF p = 1 THEN first ELSE rest[p - 1])]])

SpecOwner == InitOwner /\ [][NextTables]_vars

\* the uptime line on every uptime up to MaxUptime seconds
InitUptime ==
    \E u \in 0 .. MaxUptime :
      LET e == [BaseEnv EXCEPT !.uptime = u]
      IN  /\ pc = "additional_info"
          /\ run = "first"
          /\ env = e
          /\ sys = Sampled(e, <<>>, <<"lo">>)
          /\ log = LogBeforeTables \o <<"top_cpu", "top_mem">>
          /\ out = OutBeforeTables(e, sys) \o <<TopCpuSec(sys, e), TopMemSec(sys, e)>>
          /\ prev = None

SpecUptime == InitUptime /\ [][print_additional_info]_vars

(***************************************************************************)
(* Reading the report.                                                     *)
(***************************************************************************)
SecNames(report) == [i \in 1 .. Len(report) |-> report[i].sec]

Has(report, name) == \E i \in 1 .. Len(report) : report[i].sec = name

Sec(report, name) == report[CHOOSE i \in 1 .. Len(report) : report[i].sec = name]

IsPrefix(a, b) == Len(a) <= Len(b) /\ SubSeq(b, 1, Len(a)) = a

\* a section that says in words that its data could not be had
HasMarker(section) == "message" \in DOMAIN section /\ section.message # ""

Tables == {"top_cpu", "top_mem"}

\* the rows of the process tables printed so far
TableRows ==
    UNION {{out[i].rows[k] : k \in 1 .. Len(out[i].rows)} :
             i \in {j \in 1 .. Len(out) : out[j].sec \in Tables}}

Count(s, x) == Cardinality({i \in 1 .. Len(s) : s[i] = x})

IndexOf(s, x) == CHOOSE i \in 1 .. Len(s) : s[i] = x

(***************************************************************************)
(* C1.  As claimed: whichever of the four probes has no data source, the   *)
(* finished report carries an explicit marker in that probe's section or   *)
(* field, with every other section there and exit code 0.                  *)
(***************************************************************************)
SectionsOfEveryRun ==
    {"header", "cpu", "memory", "disk", "top_cpu", "top_mem", "os", "network",
     "users", "failed_logins", "footer"}

C1_MarkerForEveryProbe ==
    pc = "exit_0" =>
      /\ ~env.netstat.ok => Has(out, "ports") /\ HasMarker(Sec(out, "ports"))
      /\ ~env.who.ok => Has(out, "users") /\ HasMarker(Sec(out, "users"))
      /\ ~env.lastb.ok =>
           Has(out, "failed_logins") /\ HasMarker(Sec(out, "failed_logins"))
      /\ \A r \in TableRows : ~StatusOf(env, r.pid).ok => r.user = "unknown"
      /\ \A name \in SectionsOfEveryRun : Has(out, name)

(***************************************************************************)
(* C1, amended: who, lastb and the owner lookup degrade to their marker;   *)
(* a netstat that cannot be spawned leaves the listening-port line out     *)
(* without any marker; in every case the run goes on to the footer and     *)
(* exit code 0 with every other section printed.                           *)
(***************************************************************************)
C1_ProbesDegrade ==
    /\ Has(out, "users") /\ ~env.who.ok =>
         Sec(out, "users").message = UnableUsers
    /\ Has(out, "failed_logins") /\ ~env.lastb.ok =>
         Sec(out, "failed_logins").message = UnableFailed
    /\ \A r \in TableRows : ~StatusOf(env, r.pid).ok => r.user = "unknown"
    /\ ~env.netstat.ok => ~Has(out, "ports")
    /\ pc = "exit_0" =>
         /\ \A name \in SectionsOfEveryRun : Has(out, name)
         /\ env.netstat.ok => Has(out, "ports")

C1_Witness ==
    /\ pc = "exit_0"
    /\ ~env.netstat.ok /\ ~env.who.ok /\ ~env.lastb.ok
    /\ \E r \in TableRows : ~StatusOf(env, r.pid).ok /\ r.user = "unknown"
    /\ \E r \in TableRows : r.user = "alice"

(***************************************************************************)
(* C2.  As claimed: the finished report is exactly the twelve sections     *)
(* header, CPU, memory, disk, top CPU, top memory, OS, network, ports,     *)
(* users, failed logins, footer, with nothing between the failed logins    *)
(* and the footer.                                                         *)
(***************************************************************************)
ClaimedSections ==
    <<"header", "cpu", "memory", "disk", "top_cpu", "top_mem", "os", "network",
      "ports", "users", "failed_logins", "footer">>

C2_TwelveSections == pc = "exit_0" => SecNames(out) = ClaimedSections

(***************************************************************************)
(* C2, amended: the sections come in the claimed order, each once, with    *)
(* two differences: the boot time line is printed between the failed       *)
(* logins and the footer, and the listening-port count is there only if    *)
(* netstat could be spawned.                                               *)
(***************************************************************************)
PrintedSections(e) ==
    <<"header", "cpu", "memory", "disk", "top_cpu", "top_mem", "os", "network">>
    \o (IF e.netstat.ok THEN <<"ports">> ELSE <<>>)
    \o <<"users", "failed_logins", "boot_time", "footer">>

C2_SectionOrder ==
    /\ IsPrefix(SecNames(out), PrintedSections(env))
    /\ pc = "exit_0" => SecNames(out) = PrintedSections(env)

C2_Witness ==
    /\ pc = "exit_0"
    /\ run = "second"
    /\ env.netstat.ok
    /\ Len(out) = Len(ClaimedSections) + 1

(***************************************************************************)
(* C3.  As claimed: a memory percentage or a disk Use% whose total is 0    *)
(* is reported as 0.                                                       *)
(***************************************************************************)
C3_ZeroTotalGivesZero ==
    /\ Has(out, "memory") /\ sys.totalMem = 0 =>
         /\ IsZero(Sec(out, "memory").used_percent)
         /\ IsZero(Sec(out, "memory").available_percent)
    /\ Has(out, "top_mem") /\ sys.totalMem = 0 =>
         \A k \in 1 .. Len(Sec(out, "top_mem").rows) :
           IsZero(Sec(out, "top_mem").rows[k].memory_percent)
    /\ Has(out, "disk") =>
         \A k \in 1 .. Len(Sec(out, "disk").rows) :
           Sec(out, "disk").rows[k].total_space = 0 =>
             IsZero(Sec(out, "disk").rows[k].used_percent)

(***************************************************************************)
(* C4.  Each process table is the first min(5, p) entries of the stable    *)
(* descending sort of the process list: min(5, p) rows, each an entry of   *)
(* the list, in descending order of the metric with equal entries in list  *)
(* order, and every entry left out ranks behind every row.                 *)
(***************************************************************************)
Metric(x, key) == IF key = "cpu" THEN x.cpu ELSE x.mem

PosOf(pid) == CHOOSE i \in 1 .. Len(sys.procs) : sys.procs[i].pid = pid

\* x ranks ahead of y: a larger metric, or the same and earlier in the list
Ahead(x, y, key) ==
    \/ Metric(x, key) > Metric(y, key)
    \/ Metric(x, key) = Metric(y, key) /\ PosOf(x.pid) < PosOf(y.pid)

Ranked(rows, key) ==
    /\ Len(rows) = Min(TopN, Len(sys.procs))
    /\ \A i \in 1 .. Len(rows) :
         \E j \in 1 .. Len(sys.procs) :
           /\ sys.procs[j].pid = rows[i].pid
           /\ sys.procs[j].cpu = rows[i].cpu
           /\ sys.procs[j].mem = rows[i].mem
    /\ \A i, j \in 1 .. Len(rows) : i < j => Ahead(rows[i], rows[j], key)
    /\ \A j \in 1 .. Len(sys.procs) :
         (\A i \in 1 .. Len(rows) : rows[i].pid # sys.procs[j].pid) =>
           /\ \A i \in 1 .. Len(rows) : Ahead(rows[i], sys.procs[j], key)
           /\ Metric(sys.procs[j], key) <= Metric(rows[Len(rows)], key)

C4_TopFiveStable ==
    /\ Has(out, "top_cpu") => Ranked(Sec(out, "top_cpu").rows, "cpu")
    /\ Has(out, "top_mem") => Ranked(Sec(out, "top_mem").rows, "mem")

\* six processes, the one left out of the CPU table tied with the last row
C4_Witness ==
    /\ Has(out, "top_cpu") /\ Has(out, "top_mem")
    /\ Len(sys.procs) > TopN
    /\ \E j \in 1 .. Len(sys.procs) :
         /\ \A i \in 1 .. TopN : Sec(out, "top_cpu").rows[i].pid # sys.procs[j].pid
         /\ sys.procs[j].cpu = Sec(out, "top_cpu").rows[TopN].cpu
    /\ Sec(out, "top_cpu").rows[1].cpu > Sec(out, "top_cpu").rows[TopN].cpu

(***************************************************************************)
(* C5.  As claimed: a second run on a machine that has not changed prints  *)
(* the same report as the first, the time in the header apart.             *)
(***************************************************************************)
C5_SameReportTwice ==
    pc = "exit_0" /\ run = "second" /\ env.ticks = 0 => Body(out) = prev.val

(***************************************************************************)
(* C6.  As claimed: when the failed-login log cannot be read (lastb        *)
(* missing, or exiting non-zero as it does when btmp is denied), the       *)
(* section says that it is unable to retrieve the information.             *)
(***************************************************************************)
LastbFailed(e) == ~e.lastb.ok \/ e.lastb.code # 0

C6_UnreadableLogIsReported ==
    Has(out, "failed_logins") /\ LastbFailed(env) =>
      Sec(out, "failed_logins").message = UnableFailed

(***************************************************************************)
(* C7.  The USER of every row is the name the first Uid line of the        *)
(* process's status file resolves to, and "unknown" when the file is       *)
(* unreadable, has no Uid line, or that line has no uid field, a field     *)
(* that is no number, or a uid without an entry; whatever the lookup of    *)
(* one row gives, all rows of the table are printed.                       *)
(***************************************************************************)
\* what each line of the model's status files is, read by eye
LinesWithoutUid == {NameLine, UidIndented}

NameOnLine(line) ==
    CASE line \in {UidRoot, UidPlus} -> "root"
      [] line = UidAlice -> "alice"
      [] line \in {UidNoEntry, UidBare, UidGlued, UidWord, UidNegative, UidTooBig}
           -> "unknown"

RECURSIVE OwnerByEye(_)
OwnerByEye(lines) ==
    IF lines = <<>> THEN "unknown"
    ELSE IF Head(lines) \in LinesWithoutUid THEN OwnerByEye(Tail(lines))
    ELSE NameOnLine(Head(lines))

C7_OwnerOrUnknown ==
    /\ \A r \in TableRows :
         /\ r.user \in {"unknown", "root", "alice"}
         /\ r.user = IF StatusOf(env, r.pid).ok
                     THEN OwnerByEye(StatusOf(env, r.pid).lines)
                     ELSE "unknown"
    /\ \A name \in Tables :
         Has(out, name) => Len(Sec(out, name).rows) = Min(TopN, Len(sys.procs))

\* the first row's lookup fails on a malformed Uid line, the second row is
\* printed with its owner
C7_Witness ==
    /\ Has(out, "top_cpu")
    /\ Len(Sec(out, "top_cpu").rows) = 2
    /\ Sec(out, "top_cpu").rows[1].user = "unknown"
    /\ StatusOf(env, Sec(out, "top_cpu").rows[1].pid).ok
    /\ Len(StatusOf(env, Sec(out, "top_cpu").rows[1].pid).lines) = MaxStatusLines
    /\ Sec(out, "top_cpu").rows[2].user = "alice"

(***************************************************************************)
(* C8.  The CPU figures are read right after refresh, 200 ms of sleep,     *)
(* refresh: the usage printed is the delta over the 200 ms window, never   *)
(* that of a lone refresh, the per-process CPU column is read after it,    *)
(* and a run sleeps exactly once.                                          *)
(***************************************************************************)
CpuRefreshCalls == {"new_all", "refresh_all", "refresh_cpu"}

C8_TwoSamplesOneSleep ==
    /\ \A i \in 1 .. Len(log) :
         log[i] = "read_cpu" =>
           /\ i > 3
           /\ log[i - 3] \in CpuRefreshCalls
           /\ log[i - 2] = "sleep"
           /\ log[i - 1] = "refresh_cpu"
    /\ Has(out, "cpu") =>
         /\ Count(log, "read_cpu") = 1
         /\ Sec(out, "cpu").window = SleepMs
    /\ \A i \in 1 .. Len(log) :
         log[i] = "top_cpu" => \E j \in 1 .. i - 1 : log[j] = "read_cpu"
    /\ Count(log, "sleep") <= 1
    /\ pc = "exit_0" => Count(log, "sleep") = 1

C8_Witness ==
    /\ pc = "exit_0"
    /\ Has(out, "cpu")
    /\ Sec(out, "cpu").window = SleepMs
    /\ Count(log, "refresh_cpu") = 2

(***************************************************************************)
(* C9.  Both process tables are views of one sample: nothing refreshes     *)
(* the sampler between the two, and a pid in both tables has the same cpu  *)
(* and memory behind both rows, whatever the machine did meanwhile.        *)
(***************************************************************************)
ProcessRefreshCalls == {"new_all", "refresh_all"}

C9_TablesShareSnapshot ==
    Has(out, "top_mem") =>
      /\ Count(log, "top_cpu") = 1 /\ Count(log, "top_mem") = 1
      /\ IndexOf(log, "top_cpu") < IndexOf(log, "top_mem")
      /\ \A k \in IndexOf(log, "top_cpu") .. IndexOf(log, "top_mem") :
           log[k] \notin ProcessRefreshCalls
      /\ \A i \in 1 .. Len(Sec(out, "top_cpu").rows),
            j \in 1 .. Len(Sec(out, "top_mem").rows) :
           LET c == Sec(out, "top_cpu").rows[i]
               m == Sec(out, "top_mem").rows[j]
           IN  c.pid = m.pid => c.cpu = m.cpu /\ c.mem = m.mem

\* the machine moved on after the sample: a pid of both tables whose live
\* counters are no longer those of its rows
C9_Witness ==
    /\ Has(out, "top_mem")
    /\ \E i \in 1 .. Len(Sec(out, "top_cpu").rows),
          j \in 1 .. Len(Sec(out, "top_mem").rows) :
         LET c == Sec(out, "top_cpu").rows[i]
             m == Sec(out, "top_mem").rows[j]
         IN  /\ c.pid = m.pid
             /\ env.procs[c.pid].cpu # c.cpu
             /\ env.procs[c.pid].mem # m.mem

(***************************************************************************)
(* C10.  The uptime line splits s seconds into days, hours < 24 and        *)
(* minutes < 60 that account for s up to the odd seconds of the last       *)
(* minute; 90061 s is 1 day, 1 hour, 1 minute and 0 s is 0, 0, 0.          *)
(***************************************************************************)
C10_UptimeSplit ==
    Has(out, "os") =>
      LET o == Sec(out, "os")
          s == o.uptime_seconds
          whole == o.days * 86400 + o.hours * 3600 + o.minutes * 60
      IN  /\ o.days >= 0 /\ o.hours >= 0 /\ o.minutes >= 0
          /\ o.hours < 24
          /\ o.minutes < 60
          /\ whole <= s
          /\ s < whole + 60
          /\ s = 90061 => o.days = 1 /\ o.hours = 1 /\ o.minutes = 1
          /\ s = 0 => o.days = 0 /\ o.hours = 0 /\ o.minutes = 0

C10_Witness ==
    /\ Has(out, "os")
    /\ Sec(out, "os").uptime_seconds = 90061
    /\ Sec(out, "os").days = 1
    /\ Sec(out, "os").hours = 1
    /\ Sec(out, "os").minutes = 1

====
